---- MODULE Spec2Model ----
(***************************************************************************)
(* A model of the Booking.com review scraper: the orchestrator             *)
(* (src/src/main.py), the paginator and its fetcher                        *)
(* (src/src/extractors/pagination_handler.py), the document parser         *)
(* (src/src/extractors/booking_parser.py) and the exporter's format check  *)
(* (src/src/outputs/dataset_exporter.py).                                  *)
(*                                                                         *)
(* Python values are modelled as follows.  An optional value is a sequence  *)
(* of length at most one: None is <<>> and a present value x is <<x>>.     *)
(* A text (str) is a sequence of one-character strings, so that            *)
(* whitespace normalisation, digit extraction and lower-casing are         *)
(* computed character by character.  A JSON value is a record tagged by    *)
(* its field j.  A URL is a record [path, page] standing for               *)
(* "https://host/<path>?page=<page>".                                      *)
(***************************************************************************)
EXTENDS Integers, Sequences, FiniteSets, TLC

None == <<>>
Some(x) == <<x>>
Val(o) == o[1]

\* ------------------------------------------------------------------ bounds
MaxPage == 3        \* pages (distinct URLs) the modelled site has
MaxItems == 1       \* largest explicit --max-items value tried
MaxRetries == 2     \* largest settings.max_retries value tried
MaxCards == 3       \* review cards per document in the parser's input set
MaxScripts == 2     \* JSON-LD script blocks per document in the parser's input set
MaxImgs == 2        \* image elements per card in the parser's input set
MaxParagraphs == 3  \* paragraph elements per card in the parser's input set

\* --------------------------------------------------------------- constants
DefaultMaxItems == 250
HttpErrorFloor == 400

\* ------------------------------------------------------------------- texts
RECURSIVE StripLeft(_)
StripLeft(t) ==
    IF t = <<>> THEN <<>>
    ELSE IF Head(t) = " " THEN StripLeft(Tail(t)) ELSE t

RECURSIVE CollapseWs(_)
CollapseWs(t) ==
    IF t = <<>> THEN <<>>
    ELSE IF Head(t) # " " THEN <<Head(t)>> \o CollapseWs(Tail(t))
    ELSE LET r == StripLeft(t)
         IN  IF r = <<>> THEN <<>> ELSE <<" ">> \o CollapseWs(r)

RECURSIVE StripRight(_)
StripRight(t) ==
    IF t = <<>> THEN <<>>
    ELSE IF t[Len(t)] = " " THEN StripRight(SubSeq(t, 1, Len(t) - 1)) ELSE t

\* str.strip()
StripText(t) == StripRight(StripLeft(t))

\* _safe_text(node): "" for a missing node, else the node's text with every
\* whitespace run collapsed to one space and both ends trimmed.
SafeText(node) == IF node = None THEN <<>> ELSE CollapseWs(StripLeft(Val(node)))

IsDigit(c) == c \in {"0", "1", "2", "3", "4", "5", "6", "7", "8", "9"}

DigitVal(c) ==
    CASE c = "0" -> 0 [] c = "1" -> 1 [] c = "2" -> 2 [] c = "3" -> 3
      [] c = "4" -> 4 [] c = "5" -> 5 [] c = "6" -> 6 [] c = "7" -> 7
      [] c = "8" -> 8 [] c = "9" -> 9

RECURSIVE DigitsToInt(_, _)
DigitsToInt(ds, acc) ==
    IF ds = <<>> THEN acc ELSE DigitsToInt(Tail(ds), 10 * acc + DigitVal(Head(ds)))

\* _extract_int_from_text(text): every digit character of the text, joined,
\* read as one integer; None when the text has no digit.
ExtractIntFromText(text) ==
    LET digits == SelectSeq(text, IsDigit)
    IN  IF digits = <<>> THEN None ELSE Some(DigitsToInt(digits, 0))

LowerChar(c) ==
    CASE c = "H" -> "h" [] c = "O" -> "o" [] c = "T" -> "t" [] c = "E" -> "e"
      [] c = "L" -> "l" [] c = "B" -> "b" [] c = "R" -> "r"
      [] c = "N" -> "n" [] c = "X" -> "x" [] c = "P" -> "p"
      [] OTHER -> c

\* str.lower()
Lower(t) == [i \in 1..Len(t) |-> LowerChar(t[i])]

\* ------------------------------------------------------------- JSON values
JNull == [j |-> "null"]
JStr(t) == [j |-> "str", s |-> t]
JNum(n) == [j |-> "num", n |-> n]
JList(xs) == [j |-> "list", xs |-> xs]
\* A JSON object with the keys the parser reads; a key that is not present
\* holds Absent (dict.get then gives None).
Absent == [j |-> "absent"]
JDict(type, graph, agg) ==
    [j |-> "dict", type |-> type, graph |-> graph, aggregateRating |-> agg]
JAgg(reviewCount, ratingCount) ==
    [j |-> "agg", reviewCount |-> reviewCount, ratingCount |-> ratingCount]

\* Python truthiness of a JSON value (an absent key reads as None).
Truthy(v) ==
    CASE v.j = "absent" -> FALSE
      [] v.j = "null" -> FALSE
      [] v.j = "str" -> v.s # <<>>
      [] v.j = "num" -> v.n # 0
      [] v.j = "list" -> v.xs # <<>>
      [] OTHER -> TRUE

\* Python's `a or b`
PyOr(a, b) == IF Truthy(a) THEN a ELSE b

\* int(v) for a truthy v: [ok, n]. A string converts when it is all digits;
\* int() of a list or an object raises TypeError, of other text ValueError.
PyInt(v) ==
    CASE v.j = "num" -> [ok |-> TRUE, n |-> v.n]
      [] v.j = "str" ->
            IF \A i \in 1..Len(v.s) : IsDigit(v.s[i])
            THEN [ok |-> TRUE, n |-> DigitsToInt(v.s, 0)]
            ELSE [ok |-> FALSE, n |-> 0]
      [] OTHER -> [ok |-> FALSE, n |-> 0]

\* ------------------------------------------------- hotel-level statistics
Raised == [exc |-> TRUE]

\* data.get("@graph", [{}])[0].get("@type"): the type of the first graph
\* entry; an empty or non-list graph, or a first entry that is no object,
\* raises (IndexError, KeyError, TypeError, AttributeError).
GraphFirstType(data) ==
    CASE data.graph.j = "absent" -> [exc |-> FALSE, v |-> JNull]
      [] data.graph.j = "list" /\ data.graph.xs # <<>>
            /\ Head(data.graph.xs).j = "dict" ->
            [exc |-> FALSE, v |-> Head(data.graph.xs).type]
      [] OTHER -> Raised

\* data_type = data.get("@type") or data.get("@graph", [{}])[0].get("@type"),
\* then its first element when it is a list.
DataType(data) ==
    LET t == IF Truthy(data.type) THEN [exc |-> FALSE, v |-> data.type]
             ELSE GraphFirstType(data)
    IN  IF t.exc THEN Raised
        ELSE IF t.v.j = "list"
             THEN IF t.v.xs = <<>> THEN Raised
                  ELSE [exc |-> FALSE, v |-> Head(t.v.xs)]
             ELSE t

LodgingTypes == { <<"h", "o", "t", "e", "l">>,
                  <<"l", "o", "d", "g", "i", "n", "g",
                    "b", "u", "s", "i", "n", "e", "s", "s">> }

\* str(data_type).lower() in {"hotel", "lodgingbusiness"}
IsLodgingType(v) == v.j = "str" /\ Lower(v.s) \in LodgingTypes

\* _populate_stats_from_jsonld(data, stats): [exc, total], total being
\* stats["totalReviews"] afterwards.
PopulateStatsFromJsonld(data, total) ==
    IF data.j # "dict" THEN [exc |-> FALSE, total |-> total]
    ELSE LET dt == DataType(data)
         IN  IF dt.exc THEN Raised
             ELSE IF ~IsLodgingType(dt.v) THEN [exc |-> FALSE, total |-> total]
             ELSE LET aggregate == data.aggregateRating
                  IN  IF ~Truthy(aggregate) THEN [exc |-> FALSE, total |-> total]
                      ELSE IF aggregate.j # "agg" THEN [exc |-> FALSE, total |-> total]
                      ELSE LET review_count ==
                                   PyOr(aggregate.reviewCount, aggregate.ratingCount)
                           IN  IF Truthy(review_count) /\ total = None
                                  /\ PyInt(review_count).ok
                               THEN [exc |-> FALSE, total |-> Some(PyInt(review_count).n)]
                               ELSE [exc |-> FALSE, total |-> total]

\* for item in data: self._populate_stats_from_jsonld(item, stats)
RECURSIVE PopulateItems(_, _)
PopulateItems(items, total) ==
    IF items = <<>> THEN [exc |-> FALSE, total |-> total]
    ELSE LET r == PopulateStatsFromJsonld(Head(items), total)
         IN  IF r.exc THEN [exc |-> TRUE, total |-> total]
             ELSE PopulateItems(Tail(items), r.total)

\* One iteration of the loop over the ld+json scripts: json.loads of
\* script.string or "{}" (malformed text raises), then the list or the
\* single object.  [exc, total]: an exception keeps what was set before it.
ScanScript(script, total) ==
    CASE script.s = "bad" -> [exc |-> TRUE, total |-> total]
      [] script.s = "none" ->
            PopulateStatsFromJsonld(JDict(Absent, Absent, Absent), total)
      [] OTHER ->
            IF script.v.j = "list" THEN PopulateItems(script.v.xs, total)
            ELSE LET r == PopulateStatsFromJsonld(script.v, total)
                 IN  IF r.exc THEN [exc |-> TRUE, total |-> total] ELSE r

\* Strategy 1: one try block around the whole loop, so the first exception
\* ends the scan of the remaining scripts.
RECURSIVE ScanScripts(_, _)
ScanScripts(scripts, total) ==
    IF scripts = <<>> THEN total
    ELSE LET r == ScanScript(Head(scripts), total)
         IN  IF r.exc THEN r.total ELSE ScanScripts(Tail(scripts), r.total)

\* _extract_hotel_stats(soup).  The category scores are not modelled: the
\* mapping is kept empty.
ExtractHotelStats(doc) ==
    LET t1 == ScanScripts(doc.scripts, None)
        t2 == IF t1 = None /\ doc.subtitle # None
              THEN ExtractIntFromText(SafeText(doc.subtitle))
              ELSE t1
    IN  [totalReviews |-> t2, scores |-> <<>>]

\* ----------------------------------------------------- review-level data
\* _parse_title(card)
ParseTitle(card) ==
    LET title_node == IF card.title # None THEN card.title
                      ELSE IF card.h3 # None THEN card.h3 ELSE card.clsTitle
    IN  SafeText(title_node)

RECURSIVE JoinTexts(_)
JoinTexts(ts) ==
    IF ts = <<>> THEN <<>>
    ELSE IF Len(ts) = 1 THEN Head(ts)
    ELSE Head(ts) \o <<" ">> \o JoinTexts(Tail(ts))

\* The paragraph filter letting every paragraph through.
NonEmptyText_Any(p) == TRUE

\* `if _safe_text(p)` of the paragraph fallback
NonEmptyText(p) == SafeText(Some(p)) # <<>>

\* _parse_review_text(card): <<positive, negative>>
ParseReviewText(card) ==
    LET positive == IF card.positive # None THEN SafeText(card.positive) ELSE <<>>
        negative == IF card.negative # None THEN SafeText(card.negative) ELSE <<>>
        paragraphs == SelectSeq(card.paragraphs, NonEmptyText)
    IN  IF positive # <<>> \/ negative # <<>> THEN <<positive, negative>>
        ELSE IF paragraphs = <<>> THEN <<positive, negative>>
        ELSE IF Len(paragraphs) = 1 THEN <<SafeText(Some(paragraphs[1])), negative>>
        ELSE << SafeText(Some(paragraphs[1])),
                JoinTexts([i \in 1..(Len(paragraphs) - 1) |->
                              SafeText(Some(paragraphs[i + 1]))]) >>

\* BookingReviewParser.language_hint, None before the parser is built.
VARIABLE language_hint

\* `a or b` on optional texts: a when it is a non-empty text, else b.
TextOr(a, b) == IF a # None /\ Val(a) # <<>> THEN a ELSE b

\* _parse_language(card): the attribute's text, or None.  A lang attribute
\* the card has is returned whatever it holds; find_parent("html") is the
\* root element the parser always builds.
ParseLanguage(card) ==
    IF card.lang # None THEN card.lang
    ELSE IF card.dataLang # None /\ Val(card.dataLang) # <<>> THEN card.dataLang
    ELSE IF card.rootLang # None THEN card.rootLang
    ELSE None

\* _parse_booking_info(card), the nights entry: None, or the integer
\* _extract_int_from_text finds in the stay-date text.
ParseBookingInfo(card) ==
    [nights |-> IF card.stay # None
                THEN ExtractIntFromText(SafeText(card.stay))
                ELSE None]

\* The least index of c in t, 0 when t does not hold it.
Find(t, c) ==
    IF \E i \in 1..Len(t) : t[i] = c
    THEN CHOOSE i \in 1..Len(t) : t[i] = c /\ \A k \in 1..(i - 1) : t[k] # c
    ELSE 0

AlphaChars ==
    { "a", "b", "c", "d", "e", "f", "g", "h", "i", "j", "k", "l", "m", "n",
      "o", "p", "q", "r", "s", "t", "u", "v", "w", "x", "y", "z",
      "A", "B", "C", "D", "E", "F", "G", "H", "I", "J", "K", "L", "M", "N",
      "O", "P", "Q", "R", "S", "T", "U", "V", "W", "X", "Y", "Z" }

SchemeChars ==
    AlphaChars \cup { "0", "1", "2", "3", "4", "5", "6", "7", "8", "9" }
               \cup { "+", "-", "." }

\* urlparse's scheme split: the text before the first ":" when it starts
\* with a letter and holds scheme characters only.
HasScheme(src) ==
    /\ Find(src, ":") > 1
    /\ src[1] \in AlphaChars
    /\ \A i \in 1..(Find(src, ":") - 1) : src[i] \in SchemeChars

AfterScheme(src) ==
    IF HasScheme(src) THEN SubSeq(src, Find(src, ":") + 1, Len(src)) ELSE src

\* The network location: what follows a leading "//" up to the first "/",
\* "?" or "#".
NetlocEnd(rest) ==
    IF \E i \in 3..Len(rest) : rest[i] \in {"/", "?", "#"}
    THEN (CHOOSE i \in 3..Len(rest) :
             /\ rest[i] \in {"/", "?", "#"}
             /\ \A k \in 3..(i - 1) : rest[k] \notin {"/", "?", "#"}) - 1
    ELSE Len(rest)

\* urlparse(src): [exc, scheme, netloc]; unbalanced brackets in the network
\* location raise ValueError.
UrlParse(src) ==
    LET rest == AfterScheme(src)
        netloc == IF Len(rest) >= 2 /\ rest[1] = "/" /\ rest[2] = "/"
                  THEN SubSeq(rest, 3, NetlocEnd(rest))
                  ELSE <<>>
    IN  IF (Find(netloc, "[") # 0) # (Find(netloc, "]") # 0)
        THEN [exc |-> TRUE, scheme |-> <<>>, netloc |-> <<>>]
        ELSE [exc |-> FALSE,
              scheme |-> IF HasScheme(src)
                         THEN Lower(SubSeq(src, 1, Find(src, ":") - 1))
                         ELSE <<>>,
              netloc |-> netloc]

\* img.get("src") or img.get("data-src")
ImgSource(img) == TextOr(img.src, img.dataSrc)

\* The test of the first loop of _parse_photos: the image's source is kept.
KeepsPhoto(img) ==
    /\ ImgSource(img) # None
    /\ Val(ImgSource(img)) # <<>>
    /\ ~UrlParse(Val(ImgSource(img))).exc
    /\ UrlParse(Val(ImgSource(img))).scheme # <<>>
    /\ UrlParse(Val(ImgSource(img))).netloc # <<>>

\* The second loop of _parse_photos: drop what was seen before.
RECURSIVE Unique(_, _)
Unique(photos, seen) ==
    IF photos = <<>> THEN <<>>
    ELSE IF Head(photos) \in seen THEN Unique(Tail(photos), seen)
    ELSE <<Head(photos)>> \o Unique(Tail(photos), seen \cup {Head(photos)})

\* _parse_photos(card)
ParsePhotos(card) ==
    LET kept == SelectSeq(card.imgs, KeepsPhoto)
    IN  Unique([i \in 1..Len(kept) |-> Val(ImgSource(kept[i]))], {})

\* The emptiness test without the title.
IsEmptyCard_IgnoresTitle(title, positive, negative) ==
    ~(positive # <<>> \/ negative # <<>>)

\* if not (positive or negative or title): return None
IsEmptyCard(title, positive, negative) ==
    ~(positive # <<>> \/ negative # <<>> \/ title # <<>>)

\* _parse_single_review(card): [exc, review], review being None for an
\* ignored card.  card.raises stands for an unexpected exception inside one
\* of the field extractors.
ParseSingleReview(card) ==
    IF card.raises THEN Raised
    ELSE LET title == ParseTitle(card)
             pn == ParseReviewText(card)
         IN  IF IsEmptyCard(title, pn[1], pn[2])
             THEN [exc |-> FALSE, review |-> None]
             ELSE [exc |-> FALSE,
                   review |-> Some([title |-> title,
                                    positiveContent |-> pn[1],
                                    negativeContent |-> pn[2],
                                    language |-> TextOr(ParseLanguage(card),
                                                        language_hint),
                                    booking |-> ParseBookingInfo(card),
                                    photos |-> ParsePhotos(card)])]

\* The loop body without its try/except: the card's exception propagates.
TryParseCard_Propagates(card, reviews) ==
    LET r == ParseSingleReview(card)
    IN  IF r.exc THEN [exc |-> TRUE, reviews |-> reviews]
        ELSE IF r.review # None
             THEN [exc |-> FALSE, reviews |-> Append(reviews, Val(r.review))]
             ELSE [exc |-> FALSE, reviews |-> reviews]

\* The body of the loop over the cards, with its try/except: [exc, reviews].
TryParseCard(card, reviews) ==
    LET r == ParseSingleReview(card)
    IN  IF r.exc THEN [exc |-> FALSE, reviews |-> reviews]
        ELSE IF r.review # None
             THEN [exc |-> FALSE, reviews |-> Append(reviews, Val(r.review))]
             ELSE [exc |-> FALSE, reviews |-> reviews]

RECURSIVE ReviewLoop(_, _)
ReviewLoop(cards, reviews) ==
    IF cards = <<>> THEN [exc |-> FALSE, reviews |-> reviews]
    ELSE LET r == TryParseCard(Head(cards), reviews)
         IN  IF r.exc THEN Raised ELSE ReviewLoop(Tail(cards), r.reviews)

IsTestidCard(card) == card.sel = "testid"
IsLegacyCard(card) == card.sel = "legacy"

\* soup.select('[data-testid="review-card"]'), else the legacy selectors
ReviewCards(doc) ==
    LET primary == SelectSeq(doc.cards, IsTestidCard)
    IN  IF primary # <<>> THEN primary ELSE SelectSeq(doc.cards, IsLegacyCard)

\* _extract_reviews(soup): [exc, reviews]
ExtractReviews(doc) == ReviewLoop(ReviewCards(doc), <<>>)

\* parse, lines 32-36, on the two extractors' results: an unknown
\* totalReviews becomes the number of reviews of this page.
ParseResult(stats, r) ==
    IF r.exc THEN Raised
    ELSE [exc |-> FALSE,
          stats |-> IF stats.totalReviews = None
                    THEN [stats EXCEPT !.totalReviews = Some(Len(r.reviews))]
                    ELSE stats,
          reviews |-> r.reviews]

\* parse(html): [exc, stats, reviews]
Parse(doc) == ParseResult(ExtractHotelStats(doc), ExtractReviews(doc))

\* ------------------------------------------------------------- pagination
Urls == [path : {"/hotel"}, page : 1..MaxPage]
Url(n) == [path |-> "/hotel", page |-> n]

\* An href attribute: "" , an absolute URL, or a query-only reference
\* "?page=<n>".
HrefEmpty == [kind |-> "empty"]
HrefAbs(u) == [kind |-> "abs", url |-> u]
HrefQuery(n) == [kind |-> "query", page |-> n]

\* next_link.get("href") as a condition: present and not ""
HrefTruthy(href) == href # None /\ Val(href).kind # "empty"

\* urljoin(current_url, href): an absolute reference replaces the base, a
\* query-only reference keeps the base's path and replaces its query.
UrlJoin(base, href) ==
    CASE href.kind = "abs" -> href.url
      [] href.kind = "query" -> [base EXCEPT !.page = href.page]
      [] OTHER -> base

\* An element of the page that the resolver looks at.
Link(tag, rel, aria, text, href, testid) ==
    [tag |-> tag, rel_next |-> rel, aria |-> aria, text |-> text,
     href |-> href, testid_next |-> testid]

Contains(t, sub) ==
    \E i \in 0..(Len(t) - Len(sub)) : SubSeq(t, i + 1, i + Len(sub)) = sub

NextWord == <<"n", "e", "x", "t">>

\* "next" in aria or "next" in text, both stripped and lower-cased
LabelSaysNext(a) ==
    LET aria == Lower(IF a.aria = None THEN <<>> ELSE StripText(Val(a.aria)))
        text == Lower(StripText(a.text))
    IN  Contains(aria, NextWord) \/ Contains(text, NextWord)

IsRelNextAnchor(a) == a.tag = "a" /\ a.rel_next
IsNextLabelledAnchorWithHref(a) ==
    a.tag = "a" /\ LabelSaysNext(a) /\ HrefTruthy(a.href)
HasNextTestid(a) == a.testid_next

\* What soup.find gives among matches: the first one, as a sequence of at
\* most one element.
FirstOf(matches) == IF matches = <<>> THEN <<>> ELSE <<Head(matches)>>

\* soup.find("a", rel="next")
FindRelNext(links) == FirstOf(SelectSeq(links, IsRelNextAnchor))

\* The first anchor of the loop over soup.find_all("a") that returns.
FindLabelledNext(links) ==
    FirstOf(SelectSeq(links, IsNextLabelledAnchorWithHref))

\* soup.find(attrs={"data-testid": "review-paginator-next"})
FindNextBtn(links) == FirstOf(SelectSeq(links, HasNextTestid))

\* _find_next_page_url(html, current_url): [url, strategy]; url is None when
\* no strategy matches, strategy is the number of the one that did.
FindNextPageUrl(doc, current_url) ==
    LET next_link == FindRelNext(doc.links)
        labelled == FindLabelledNext(doc.links)
        next_btn == FindNextBtn(doc.links)
    IN  IF next_link # <<>> /\ HrefTruthy(next_link[1].href)
        THEN [url |-> Some(UrlJoin(current_url, Val(next_link[1].href))),
              strategy |-> 1]
        ELSE IF labelled # <<>>
        THEN [url |-> Some(UrlJoin(current_url, Val(labelled[1].href))),
              strategy |-> 2]
        ELSE IF next_btn # <<>> /\ next_btn[1].tag = "a"
                /\ HrefTruthy(next_btn[1].href)
        THEN [url |-> Some(UrlJoin(current_url, Val(next_btn[1].href))),
              strategy |-> 3]
        ELSE [url |-> None, strategy |-> 0]

\* The loop condition without its visited-set half.
MayVisit_IgnoresVisited(url, visited) == url # None

\* `while current_url and current_url not in visited_urls`
MayVisit(url, visited) == url # None /\ Val(url) \notin visited

\* ---------------------------------------------------------------- fetcher
\* resp.text == ""
EmptyText == [kind |-> "empty"]

\* resp.raise_for_status(): raises for a client or server error status
RaisesForStatus(status) == status >= HttpErrorFloor

\* One pass of the try block of _fetch on what session.get produced: the
\* request raised, or returned a response with a status and a text.
AttemptSucceeds(resp) == ~resp.exc /\ ~RaisesForStatus(resp.status)

\* `except Exception` around the request: what session.get raises
\* (ConnectionError, Timeout) and what raise_for_status raises (HTTPError)
\* are all caught.
CaughtByExcept(kind) == kind \in {"ConnectionError", "HTTPError"}

\* The exception one failed pass of the try block raised.
FailureKind(resp) == IF resp.exc THEN "ConnectionError" ELSE "HTTPError"

\* `if not html` in iter_pages: _fetch gave None, or an empty text
NoHtml(h) == h = None \/ Val(h) = EmptyText

\* range(1, max_retries + 2): one request too many.
HasAttemptLeft_OneMore(n, max_retries) == n <= max_retries

\* `for attempt in range(1, self.max_retries + 1)` has another pass to make
HasAttemptLeft(n, max_retries) == n < max_retries

\* ----------------------------------------------------------- orchestrator
\* hotel_url = args.hotel_url or input_cfg.get("hotelUrl")
\* (URL values are never "", so `or` is "first that is not None").
FirstSet(a, b) == IF a # None THEN a ELSE b

\* merge_config(settings, input_cfg, args): [exc, cfg].  args.formats is None
\* for an absent or empty --formats, else the list of its non-blank entries
\* (which "," makes empty).
MergeConfig(settings, input_cfg, args) ==
    LET hotel_url == FirstSet(args.hotel_url, input_cfg.hotelUrl)
        max_items == IF args.max_items # None THEN Val(args.max_items)
                     ELSE IF input_cfg.maxItems # None THEN Val(input_cfg.maxItems)
                     ELSE settings.default_max_items
        formats0 == IF args.formats # None THEN Val(args.formats)
                    ELSE IF input_cfg.formats # None THEN Val(input_cfg.formats)
                    ELSE settings.formats
        formats == IF formats0 = <<>> THEN <<"json">> ELSE formats0
        language == TextOr(args.language, input_cfg.language)
    IN  IF hotel_url = None THEN Raised
        ELSE [exc |-> FALSE,
              cfg |-> [hotel_url |-> Val(hotel_url), max_items |-> max_items,
                       formats |-> formats, language |-> language,
                       max_retries |-> settings.max_retries]]

\* The inner loop putting each review in front of the list.
RECURSIVE AppendUntilCap_Prepends(_, _, _)
AppendUntilCap_Prepends(all, page_reviews, max_items) ==
    IF page_reviews = <<>> THEN [all |-> all, stop |-> FALSE]
    ELSE IF Len(all) + 1 >= max_items
         THEN [all |-> <<Head(page_reviews)>> \o all, stop |-> TRUE]
         ELSE AppendUntilCap_Prepends(<<Head(page_reviews)>> \o all,
                                      Tail(page_reviews), max_items)

\* The inner loop of scrape_reviews over one page's reviews: append, then
\* stop as soon as len(all_reviews) >= max_items.  [all, stop]
RECURSIVE AppendUntilCap(_, _, _)
AppendUntilCap(all, page_reviews, max_items) ==
    IF page_reviews = <<>> THEN [all |-> all, stop |-> FALSE]
    ELSE LET all2 == Append(all, Head(page_reviews))
         IN  IF Len(all2) >= max_items THEN [all |-> all2, stop |-> TRUE]
             ELSE AppendUntilCap(all2, Tail(page_reviews), max_items)

\* hotel_stats = hotel_stats or {"totalReviews": len(all_reviews), "scores": {}}
FinalStats(stats, all) ==
    IF stats # None THEN Val(stats)
    ELSE [totalReviews |-> Some(Len(all)), scores |-> <<>>]

\* A result that keeps the statistics and loses the accumulated reviews.
ScrapeResult_DropsReviews(stats, all) ==
    [hotelStats |-> FinalStats(stats, all), reviews |-> <<>>]

\* The value scrape_reviews returns.
ScrapeResult(stats, all) ==
    [hotelStats |-> FinalStats(stats, all), reviews |-> all]

\* --------------------------------------------------------------- exporter
\* _derive_paths(base_output_path, formats): the keys of the paths mapping
DerivePaths(formats) ==
    { IF formats[i] = "excel" THEN "xlsx" ELSE formats[i] :
        i \in { k \in 1..Len(formats) :
                  formats[k] \in {"json", "csv", "xlsx", "excel"} } }

\* ------------------------------------------------------------ input sets
Txt_a == <<"a">>
Txt_b == <<"b">>
Txt_ws == <<" ">>
Txt_Hotel == <<"H", "o", "t", "e", "l">>
Txt_LODGING == <<"L", "o", "d", "g", "i", "n", "g",
                 "B", "u", "s", "i", "n", "e", "s", "s">>
Txt_Restaurant == <<"R", "e", "s", "t">>
Txt_Next == <<" ", "N", "e", "x", "t">>
Txt_NEXT == <<"N", "E", "X", "T", " ", "p">>
Txt_Prev == <<"P", "r", "e", "v">>
Txt_42 == <<"4", "2">>
Txt_7r == <<"7", " ", "r">>
Txt_1c2 == <<"1", ",", "2">>

Card(sel, title, h3, cls, positive, negative, paragraphs, raises) ==
    [sel |-> sel, title |-> title, h3 |-> h3, clsTitle |-> cls,
     positive |-> positive, negative |-> negative,
     paragraphs |-> paragraphs, raises |-> raises,
     lang |-> None, dataLang |-> None, rootLang |-> None,
     stay |-> None, imgs |-> <<>>]

Img(src, data_src) == [src |-> src, dataSrc |-> data_src]

Doc(scripts, subtitle, cards, links) ==
    [kind |-> "html", scripts |-> scripts, subtitle |-> subtitle,
     cards |-> cards, links |-> links]

ScriptNone == [s |-> "none"]
ScriptBad == [s |-> "bad"]
ScriptJson(v) == [s |-> "json", v |-> v]

SeqsUpTo(S, n) == UNION { [1..k -> S] : k \in 0..n }

\* Pages the modelled site serves.
CardA == Card("testid", Some(Txt_a), None, None, None, None, <<>>, FALSE)
CardB == Card("testid", None, None, None, Some(Txt_b), None, <<>>, FALSE)
LodgingWith42 ==
    ScriptJson(JDict(JStr(Txt_Hotel), Absent, JAgg(JNum(42), Absent)))

SiteContents ==
    { [scripts |-> <<>>, subtitle |-> None, cards |-> <<>>],
      [scripts |-> <<>>, subtitle |-> None, cards |-> <<CardA>>],
      [scripts |-> <<>>, subtitle |-> Some(Txt_a), cards |-> <<CardA, CardB>>],
      [scripts |-> <<LodgingWith42>>, subtitle |-> None, cards |-> <<CardB>>] }

SiteLinks ==
    { <<>> }
    \cup { << Link("a", TRUE, None, <<>>, Some(HrefAbs(Url(n))), FALSE) >> :
             n \in 1..MaxPage }
    \cup { << Link("a", FALSE, Some(Txt_Next), <<>>, Some(HrefQuery(n)), FALSE) >> :
             n \in 1..MaxPage }
    \cup { << Link("a", FALSE, None, Txt_Prev, Some(HrefAbs(Url(1))), FALSE),
              Link("a", FALSE, None, <<>>, Some(HrefAbs(Url(n))), TRUE) >> :
             n \in 1..MaxPage }
    \cup { << Link("a", TRUE, None, <<>>, Some(HrefEmpty), FALSE),
              Link("a", FALSE, None, Txt_NEXT, None, FALSE),
              Link("a", FALSE, None, Txt_NEXT, Some(HrefQuery(MaxPage)), FALSE) >>,
           << Link("button", FALSE, None, <<>>, None, TRUE),
              Link("a", FALSE, None, <<>>, Some(HrefAbs(Url(MaxPage))), TRUE) >> }

SiteDocs ==
    { Doc(c.scripts, c.subtitle, c.cards, l) : c \in SiteContents, l \in SiteLinks }

\* What session.get can produce for one request.
Responses ==
    { [exc |-> TRUE, status |-> 0, text |-> EmptyText] }
    \cup { [exc |-> FALSE, status |-> st, text |-> EmptyText] : st \in {200, 404, 503} }
    \cup { [exc |-> FALSE, status |-> 200, text |-> d] : d \in SiteDocs }

ArgsSet ==
    [hotel_url : {None, Some(Url(1))},
     max_items : {None} \cup { Some(n) : n \in 0..MaxItems },
     formats : {None, Some(<<>>), Some(<<"json">>), Some(<<"pdf">>)},
     language : {None}]

InputSet ==
    [hotelUrl : {None, Some(Url(1))}, maxItems : {None, Some(1)},
     formats : {None, Some(<<"json">>)}, language : {None}]

SettingsSet ==
    [max_retries : 0..MaxRetries, default_max_items : {DefaultMaxItems},
     formats : {<<"json">>}]


\* Single cards handed to the parser: attributes, stay text, images and
\* paragraphs.
Txt_en == <<"e", "n">>
Txt_fr == <<"f", "r">>
Txt_de == <<"d", "e">>
Txt_nl == <<"n", "l">>
Txt_Stayed2 == <<"S", "t", "a", "y", "e", "d", " ", "2", " ", "n", "i", "g", "h", "t", "s", " ", "i", "n", " ", "A", "u", "g", "u", "s", "t", " ", "2", "0", "2", "2">>
Txt_12nights == <<"1", "2", " ", "n", "i", "g", "h", "t", "s">>
Txt_Stayed == <<"S", "t", "a", "y", "e", "d">>
Txt_3and4 == <<"3", " ", "a", "n", "d", " ", "4">>

Src_x == <<"h", ":", "/", "/", "x", "/", "a">>
Src_y == <<"H", ":", "/", "/", "y">>
Src_relative == <<"/", "a">>
Src_noScheme == <<"/", "/", "x", "/", "a">>
Src_noNetloc == <<"h", ":", "a">>
Src_portOnly == <<"h", ":", "/", "/", ":", "8", "/", "a">>
Src_bracket == <<"h", ":", "/", "/", "[", "x", "/", "a">>

Hints == { None, Some(<<>>), Some(Txt_nl) }

LangCards ==
    { [CardA EXCEPT !.lang = l, !.dataLang = d, !.rootLang = r] :
        l \in { None, Some(<<>>), Some(Txt_en) },
        d \in { None, Some(<<>>), Some(Txt_fr) },
        r \in { None, Some(<<>>), Some(Txt_de) } }

StayCards ==
    { [CardA EXCEPT !.stay = t] :
        t \in { None, Some(<<>>), Some(Txt_Stayed), Some(Txt_Stayed2),
                Some(Txt_12nights), Some(Txt_3and4) } }

Imgs ==
    { Img(None, None), Img(Some(Src_x), None), Img(Some(Src_y), None),
      Img(None, Some(Src_x)), Img(Some(<<>>), Some(Src_y)),
      Img(Some(Src_relative), Some(Src_x)), Img(Some(Src_noScheme), None),
      Img(Some(Src_noNetloc), None), Img(Some(Src_portOnly), None),
      Img(Some(Src_bracket), None) }

PhotoCards == { [CardA EXCEPT !.imgs = i] : i \in SeqsUpTo(Imgs, MaxImgs) }

ParagraphCards ==
    { Card("testid", Some(Txt_a), None, None, pos, neg, ps, FALSE) :
        pos \in { None, Some(Txt_ws), Some(Txt_b) },
        neg \in { None, Some(Txt_ws), Some(Txt_a) },
        ps \in SeqsUpTo({ Txt_ws, Txt_a, Txt_b }, MaxParagraphs) }

SingleCards == LangCards \cup StayCards \cup PhotoCards \cup ParagraphCards

\* Documents handed to the parser on its own.
ParserCards ==
    { Card("testid", t[1], t[2], None, x[1], x[2], x[3], FALSE) :
        t \in { <<None, None>>, <<Some(Txt_a), None>>, <<Some(Txt_ws), Some(Txt_a)>> },
        x \in { <<None, None, <<>> >>, <<Some(Txt_b), None, <<>> >>,
                <<None, None, <<Txt_ws, Txt_a, Txt_b>> >> } }
    \cup { Card("legacy", None, None, Some(Txt_b), None, None, <<>>, FALSE),
           Card("legacy", None, None, None, Some(Txt_ws), Some(Txt_a), <<Txt_b>>, FALSE),
           Card("testid", Some(Txt_a), None, None, None, None, <<>>, TRUE) }

HotelObj(agg) == JDict(JStr(Txt_Hotel), Absent, agg)

ParserScripts ==
    { ScriptNone,
      ScriptBad,
      LodgingWith42,
      ScriptJson(JDict(JStr(Txt_LODGING), Absent, JAgg(Absent, JStr(<<"7">>)))),
      ScriptJson(JDict(JStr(Txt_Restaurant), Absent, JAgg(JNum(9), Absent))),
      ScriptJson(JDict(Absent, Absent, JAgg(JNum(5), Absent))),
      ScriptJson(JDict(Absent, JList(<<>>), Absent)),
      ScriptJson(JDict(Absent, JList(<<HotelObj(JAgg(JNum(11), Absent))>>), Absent)),
      ScriptJson(JList(<< JDict(JStr(Txt_Restaurant), Absent, Absent),
                          HotelObj(JAgg(JNum(13), Absent)) >>)),
      ScriptJson(JDict(JList(<<JStr(Txt_Hotel)>>), Absent, JAgg(JNum(0), JNum(8)))),
      ScriptJson(HotelObj(JAgg(JStr(Txt_a), Absent))),
      ScriptJson(HotelObj(Absent)) }

ParserSubtitles == { None, Some(Txt_7r), Some(Txt_1c2), Some(Txt_a) }

ParserDocs ==
    { Doc(ss, sub, cs, <<>>) :
        ss \in SeqsUpTo(ParserScripts, MaxScripts), sub \in ParserSubtitles,
        cs \in { <<>>, <<CardA>> } }
    \cup { Doc(<<>>, None, cs, <<>>) : cs \in SeqsUpTo(ParserCards, MaxCards) }

\* ------------------------------------------------------------------ state
VARIABLES
    pc,              \* where the run is (see the actions)
    cfg,             \* merge_config's result
    reported,        \* the fatal error main logged before sys.exit(1), or None
    current_url,     \* iter_pages: current_url
    visited_urls,    \* iter_pages: visited_urls
    attempt,         \* _fetch: requests made for the URL being fetched
    last_resp,       \* _fetch: what the latest session.get produced
    html,            \* what _fetch returned / the page iter_pages yielded
    next_url,        \* iter_pages: the latest result of _find_next_page_url
    strategy,        \* which strategy of _find_next_page_url produced next_url
    all_reviews,     \* scrape_reviews: all_reviews
    hotel_stats,     \* scrape_reviews: hotel_stats
    page_count,      \* scrape_reviews: page_count
    parsed,          \* the latest return value of parser.parse
    result,          \* what scrape_reviews returned, or None
    export_call,     \* the scrape result main passed to export_dataset, or None
    exported,        \* what export_dataset wrote, or None
    fetch_log,       \* history: the URLs passed to _fetch, in order
    failed_attempts, \* history: failed requests of the current _fetch call
    network_used,    \* history: some session.get was issued
    emitted,         \* history: every page's parse output, concatenated
    aggregate_seen,  \* history: some parsed page exposed a review count
    ended_by         \* history: why the loop over the pages ended

vars == << pc, cfg, reported, current_url, visited_urls, attempt, last_resp,
           html, next_url, strategy, all_reviews, hotel_stats, page_count,
           parsed, result, export_call, exported, fetch_log, failed_attempts,
           network_used, emitted, aggregate_seen, ended_by, language_hint >>

mainVars == << cfg, reported, result, export_call, exported, language_hint >>
iterVars == << current_url, visited_urls, next_url, strategy, fetch_log >>
fetchVars == << attempt, last_resp, failed_attempts, network_used >>
scrapeVars == << all_reviews, hotel_stats, page_count, parsed, emitted,
                 aggregate_seen >>

NoCfg == [hotel_url |-> Url(1), max_items |-> 0, formats |-> <<>>,
          language |-> None, max_retries |-> 0]
NoResp == [exc |-> TRUE, status |-> 0, text |-> EmptyText]
NoParse == [exc |-> FALSE, stats |-> [totalReviews |-> None, scores |-> <<>>],
            reviews |-> <<>>]

\* Everything but pc and html, as it is before main has done anything.
Fresh ==
    /\ cfg = NoCfg
    /\ reported = None
    /\ current_url = None
    /\ visited_urls = {}
    /\ attempt = 0
    /\ last_resp = NoResp
    /\ next_url = None
    /\ strategy = 0
    /\ all_reviews = <<>>
    /\ hotel_stats = None
    /\ page_count = 0
    /\ parsed = NoParse
    /\ result = None
    /\ export_call = None
    /\ exported = None
    /\ fetch_log = <<>>
    /\ failed_attempts = 0
    /\ network_used = FALSE
    /\ emitted = <<>>
    /\ aggregate_seen = FALSE
    /\ ended_by = "running"

Init == pc = "config" /\ html = None /\ language_hint = None /\ Fresh

\* main, lines 243-249, on merge_config's outcome m: a configuration error
\* is logged and the process exits; otherwise scrape_reviews is entered
\* (lines 251-259, 146-161) with the generator not yet started.
Configured(m) ==
    IF m.exc
    THEN /\ reported' = Some("Configuration error")
         /\ pc' = "exit1"
         /\ UNCHANGED << cfg, current_url, language_hint >>
    ELSE /\ cfg' = m.cfg
         /\ language_hint' = m.cfg.language
         /\ current_url' = Some(m.cfg.hotel_url)
         /\ pc' = "head"
         /\ UNCHANGED reported

Configure ==
    /\ pc = "config"
    /\ \E settings \in SettingsSet, input_cfg \in InputSet, args \in ArgsSet :
          Configured(MergeConfig(settings, input_cfg, args))
    /\ UNCHANGED << result, export_call, exported, visited_urls, next_url,
                    strategy, fetch_log, html, ended_by >>
    /\ UNCHANGED << fetchVars, scrapeVars >>

\* iter_pages, lines 40-43: the loop condition; when it holds the URL is
\* marked visited and _fetch is entered, otherwise the generator ends.
LoopHead ==
    /\ pc = "head"
    /\ IF MayVisit(current_url, visited_urls)
       THEN /\ visited_urls' = visited_urls \cup {Val(current_url)}
            /\ fetch_log' = Append(fetch_log, Val(current_url))
            /\ attempt' = 0
            /\ failed_attempts' = 0
            /\ pc' = "fetching"
            /\ UNCHANGED ended_by
       ELSE /\ pc' = "return"
            /\ ended_by' = "visited"
            /\ UNCHANGED << visited_urls, fetch_log, attempt, failed_attempts >>
    /\ UNCHANGED << current_url, next_url, strategy, last_resp, network_used,
                    html >>
    /\ UNCHANGED << mainVars, scrapeVars >>

\* _fetch, lines 66-83, on what session.get produced: a success returns the
\* text; a caught failure is logged and slept on, and the loop goes on; an
\* exception the except clause does not catch leaves _fetch and iter_pages
\* and is caught in scrape_reviews (lines 178-179).
Attempted(resp) ==
    /\ last_resp' = resp
    /\ IF AttemptSucceeds(resp)
       THEN /\ html' = Some(resp.text)
            /\ pc' = "fetched"
            /\ UNCHANGED << failed_attempts, ended_by >>
       ELSE IF CaughtByExcept(FailureKind(resp))
       THEN /\ failed_attempts' = failed_attempts + 1
            /\ pc' = "fetching"
            /\ UNCHANGED << html, ended_by >>
       ELSE /\ failed_attempts' = failed_attempts + 1
            /\ pc' = "return"
            /\ ended_by' = "fetch raised"
            /\ UNCHANGED html

FetchAttempt ==
    /\ pc = "fetching"
    /\ HasAttemptLeft(attempt, cfg.max_retries)
    /\ \E resp \in Responses : Attempted(resp)
    /\ attempt' = attempt + 1
    /\ network_used' = TRUE
    /\ UNCHANGED << mainVars, iterVars, scrapeVars >>

\* _fetch, lines 85-86: the retry loop ran out; return None.
FetchExhausted ==
    /\ pc = "fetching"
    /\ ~HasAttemptLeft(attempt, cfg.max_retries)
    /\ html' = None
    /\ pc' = "fetched"
    /\ UNCHANGED << mainVars, iterVars, fetchVars, scrapeVars, ended_by >>

\* iter_pages, lines 44-48: `if not html: break`, else yield the page.
YieldPage ==
    /\ pc = "fetched"
    /\ IF NoHtml(html)
       THEN /\ pc' = "return"
            /\ ended_by' = IF html = None THEN "fetch" ELSE "empty"
       ELSE /\ pc' = "yielded"
            /\ UNCHANGED ended_by
    /\ UNCHANGED << mainVars, iterVars, fetchVars, scrapeVars, html >>

\* scrape_reviews, lines 167-174, given what parse returned (p) and what
\* the loop over its reviews did (r): the first page's statistics are kept,
\* and reaching the cap ends the loop over the pages.
AccumulatePage(p, r) ==
    /\ parsed' = p
    /\ hotel_stats' = IF hotel_stats = None THEN Some(p.stats) ELSE hotel_stats
    /\ all_reviews' = r.all
    /\ emitted' = emitted \o p.reviews
    /\ pc' = IF r.stop THEN "return" ELSE "resume"
    /\ ended_by' = IF r.stop THEN "cap" ELSE ended_by

\* scrape_reviews, lines 165-179: an exception out of parse is logged and
\* ends the loop over the pages.
ScrapeBody(p) ==
    IF p.exc
    THEN /\ pc' = "return"
         /\ ended_by' = "parse raised"
         /\ UNCHANGED << parsed, hotel_stats, all_reviews, emitted >>
    ELSE AccumulatePage(p, AppendUntilCap(all_reviews, p.reviews, cfg.max_items))

\* scrape_reviews, lines 162-179: the body of the loop over the pages.
ScrapePage ==
    /\ pc = "yielded"
    /\ page_count' = page_count + 1
    /\ aggregate_seen' =
          (aggregate_seen \/ ExtractHotelStats(Val(html)).totalReviews # None)
    /\ ScrapeBody(Parse(Val(html)))
    /\ UNCHANGED << mainVars, iterVars, fetchVars, html >>

\* iter_pages, lines 50-60, given the resolver's answer n: no URL ends the
\* generator, a URL becomes the current one.
Resolved(n) ==
    /\ next_url' = n.url
    /\ strategy' = n.strategy
    /\ IF n.url = None
       THEN pc' = "return" /\ ended_by' = "no next" /\ UNCHANGED current_url
       ELSE pc' = "head" /\ current_url' = n.url /\ UNCHANGED ended_by

ResolveNext ==
    /\ pc = "resume"
    /\ Resolved(FindNextPageUrl(Val(html), Val(current_url)))
    /\ UNCHANGED << visited_urls, fetch_log, html >>
    /\ UNCHANGED << mainVars, fetchVars, scrapeVars >>

\* scrape_reviews, lines 181-191
ScrapeReturn ==
    /\ pc = "return"
    /\ result' = Some(ScrapeResult(hotel_stats, all_reviews))
    /\ pc' = "export"
    /\ UNCHANGED << cfg, reported, export_call, exported, html, ended_by,
                    language_hint >>
    /\ UNCHANGED << iterVars, fetchVars, scrapeVars >>

\* main, lines 261-275, with export_dataset, lines 77-79: no valid format
\* raises ValueError, which main logs before exiting.
ExportDataset ==
    /\ pc = "export"
    /\ export_call' = result
    /\ IF DerivePaths(cfg.formats) = {}
       THEN /\ reported' = Some("Failed to export dataset")
            /\ pc' = "exit1"
            /\ UNCHANGED exported
       ELSE /\ exported' = result
            /\ pc' = "done"
            /\ UNCHANGED reported
    /\ UNCHANGED << cfg, result, html, ended_by, language_hint >>
    /\ UNCHANGED << iterVars, fetchVars, scrapeVars >>

Next ==
    \/ Configure
    \/ LoopHead
    \/ FetchAttempt
    \/ FetchExhausted
    \/ YieldPage
    \/ ScrapePage
    \/ ResolveNext
    \/ ScrapeReturn
    \/ ExportDataset

Spec == Init /\ [][Next]_vars

\* ---------------------------------------------------- the parser on its own
\* parser.parse applied to one document of ParserDocs.
InitParse ==
    /\ pc = "parse_call"
    /\ \E d \in ParserDocs : html = Some(d)
    /\ language_hint = None
    /\ Fresh

ParseCall ==
    /\ pc = "parse_call"
    /\ parsed' = Parse(Val(html))
    /\ pc' = "parse_ret"
    /\ UNCHANGED << mainVars, iterVars, fetchVars, html, ended_by, all_reviews,
                    hotel_stats, page_count, emitted, aggregate_seen >>

NextParse == ParseCall

SpecParse == InitParse /\ [][NextParse]_vars

\* parser.parse on a page holding one card, with the parser's language hint
\* as its caller set it.
InitCard ==
    /\ pc = "parse_call"
    /\ \E c \in SingleCards : html = Some(Doc(<<>>, None, <<c>>, <<>>))
    /\ language_hint \in Hints
    /\ Fresh

SpecCard == InitCard /\ [][NextParse]_vars

\* ----------------------------------------------------------------- claims
NoDuplicates(s) == \A i, j \in 1..Len(s) : i # j => s[i] # s[j]

InPageLoop == pc \in {"head", "fetching", "fetched", "yielded", "resume"}

\* C1: for every max_items >= 0 the review list scrape_reviews returns
\* holds at most max_items records.
C1_AtMostMaxItems ==
    result # None => Len(Val(result).reviews) <= cfg.max_items

\* C2: within one run of iter_pages no URL is passed to _fetch more than
\* once; when the resolved next URL was already visited (the current URL
\* included) the iteration ends, without fetching it and without yielding
\* another page.
C2_NoUrlFetchedTwice ==
    /\ NoDuplicates(fetch_log)
    /\ Cardinality(visited_urls) = Len(fetch_log)
    /\ page_count <= Len(fetch_log)
    /\ ended_by = "visited" =>
          /\ ~InPageLoop
          /\ next_url # None /\ Val(next_url) \in visited_urls
          /\ page_count = Len(fetch_log)

\* A run that went from page 1 to another page and was sent back to page 1.
C2_Witness ==
    /\ ended_by = "visited"
    /\ Len(fetch_log) >= 2
    /\ Val(next_url) = fetch_log[1]
    /\ pc = "done"

\* C3, as claimed: _find_next_page_url never returns a URL that was already
\* visited in the current run, whichever strategy produced it.
C3_ResolverNeverReturnsVisited ==
    (pc = "head" /\ next_url # None) => Val(next_url) \notin visited_urls

\* C3, amended: whichever strategy produced it, a URL returned by
\* _find_next_page_url that was already visited is refused by the loop
\* condition of iter_pages: the iteration ends there, with no fetch, no
\* request and no further page.
C3_VisitedNextUrlEndsIteration ==
    [][ (pc = "head" /\ next_url # None /\ Val(next_url) \in visited_urls)
          => /\ pc' = "return"
             /\ ended_by' = "visited"
             /\ UNCHANGED << fetch_log, visited_urls, attempt, network_used,
                             page_count, all_reviews >> ]_vars

\* The data-testid strategy returned the URL of the page it was found on.
C3_Witness ==
    /\ ended_by = "visited"
    /\ strategy = 3
    /\ next_url = current_url
    /\ Val(next_url) = fetch_log[Len(fetch_log)]

\* C4: every unrecoverable configuration error (no hotel URL, no valid
\* output format) is reported before any network fetch is attempted.
C4_ConfigErrorsBeforeNetwork ==
    reported # None => ~network_used

\* C5: for one URL _fetch makes at most max_retries requests, stops at the
\* first that succeeds (status below 400) and returns its text, returns None
\* exactly when all max_retries requests failed, and never raises.
C5_FetchContract ==
    /\ attempt <= cfg.max_retries
    /\ ended_by # "fetch raised"
    /\ pc = "fetched" =>
          /\ (html = None) <=> (failed_attempts = cfg.max_retries)
          /\ html # None =>
                /\ failed_attempts = attempt - 1
                /\ ~last_resp.exc
                /\ last_resp.status < HttpErrorFloor
                /\ html = Some(last_resp.text)

\* The first request failed and the second succeeded.
C5_Witness ==
    /\ pc = "fetched"
    /\ html # None
    /\ attempt = 2
    /\ failed_attempts = 1

\* C6: when the fetch of page k exhausts its retries the pagination ends
\* without an exception reaching main: no later page is fetched,
\* scrape_reviews returns every review of pages 1..k-1, and main still
\* calls export_dataset with that partial result.
C6_ExhaustionKeepsPartialResult ==
    ended_by = "fetch" =>
        /\ ~InPageLoop
        /\ html = None
        /\ page_count = Len(fetch_log) - 1
        /\ all_reviews = emitted
        /\ result # None => Val(result).reviews = emitted
        /\ pc \in {"done", "exit1"} => (export_call # None /\ export_call = result)
        /\ pc = "done" => exported = result

\* The third page could not be fetched; the first two pages' reviews were
\* exported.
C6_Witness ==
    /\ ended_by = "fetch"
    /\ pc = "done"
    /\ page_count = 2
    /\ Len(Val(exported).reviews) >= 2

\* C7: when no processed page exposes an aggregate review count,
\* hotelStats.totalReviews of the result is the number of review records
\* extracted from all the pages processed in the run.
C7_TotalIsCountOfExtracted ==
    (result # None /\ ~aggregate_seen)
        => Val(result).hotelStats.totalReviews = Some(Len(emitted))

\* The cards the parser selected from the document it was given.
SelectedCards == ReviewCards(Val(html))

HasContent(r) ==
    r.title # <<>> \/ r.positiveContent # <<>> \/ r.negativeContent # <<>>

\* The card's record, field by field as the extractors compute them.
FieldsOf(card) ==
    [title |-> ParseTitle(card),
     positiveContent |-> ParseReviewText(card)[1],
     negativeContent |-> ParseReviewText(card)[2],
     language |-> TextOr(ParseLanguage(card), language_hint),
     booking |-> ParseBookingInfo(card),
     photos |-> ParsePhotos(card)]

TitleOnly(card) ==
    /\ FieldsOf(card).title # <<>>
    /\ FieldsOf(card).positiveContent = <<>>
    /\ FieldsOf(card).negativeContent = <<>>

Extractable(card) == ~card.raises /\ HasContent(FieldsOf(card))

\* C8: every record parse emits has a non-empty title, positiveContent or
\* negativeContent; a card whose three fields are all empty is never
\* emitted, and a card with only a non-empty title is emitted.
C8_OnlyNonEmptyCardsEmitted ==
    pc = "parse_ret" =>
        /\ ~parsed.exc
        /\ \A i \in 1..Len(parsed.reviews) : HasContent(parsed.reviews[i])
        /\ Len(parsed.reviews) <= Len(SelectSeq(SelectedCards, Extractable))
        /\ \A i \in 1..Len(SelectedCards) :
              (~SelectedCards[i].raises /\ TitleOnly(SelectedCards[i]))
                 => \E k \in 1..Len(parsed.reviews) :
                       parsed.reviews[k] = FieldsOf(SelectedCards[i])

\* An empty card followed by a title-only card: one record, the second's.
C8_Witness ==
    /\ pc = "parse_ret"
    /\ Len(SelectedCards) = 2
    /\ ~SelectedCards[1].raises /\ ~HasContent(FieldsOf(SelectedCards[1]))
    /\ ~SelectedCards[2].raises /\ TitleOnly(SelectedCards[2])
    /\ parsed.reviews = <<FieldsOf(SelectedCards[2])>>

\* C9: an exception raised while extracting one card skips only that
\* card: whatever its position, every other non-empty card of the page is
\* emitted, in document order, and parse does not raise.
C9_FailingCardSkippedAlone ==
    pc = "parse_ret" =>
        /\ ~parsed.exc
        /\ LET kept == SelectSeq(SelectedCards, Extractable)
           IN  parsed.reviews = [i \in 1..Len(kept) |-> FieldsOf(kept[i])]

\* The failing card stands between two cards that are both emitted.
C9_Witness ==
    /\ pc = "parse_ret"
    /\ Len(SelectedCards) = 3
    /\ SelectedCards[2].raises
    /\ parsed.reviews = <<FieldsOf(SelectedCards[1]), FieldsOf(SelectedCards[3])>>
    /\ FieldsOf(SelectedCards[1]) # FieldsOf(SelectedCards[3])

\* The JSON objects of one ld+json block in document order: the items of a
\* top-level list, or the object followed by the entries of its graph.
ObjectsOfScript(script) ==
    IF script.s # "json" THEN <<>>
    ELSE IF script.v.j = "list" THEN script.v.xs
    ELSE IF script.v.j # "dict" THEN <<>>
    ELSE IF script.v.graph.j = "list" THEN <<script.v>> \o script.v.graph.xs
    ELSE <<script.v>>

RECURSIVE ObjectsOfScripts(_)
ObjectsOfScripts(scripts) ==
    IF scripts = <<>> THEN <<>>
    ELSE ObjectsOfScript(Head(scripts)) \o ObjectsOfScripts(Tail(scripts))

OwnType(obj) ==
    IF obj.type.j = "list" /\ obj.type.xs # <<>> THEN Head(obj.type.xs)
    ELSE obj.type

\* A lodging-typed object whose aggregate rating carries a usable
\* reviewCount, else ratingCount.
LodgingWithCount(obj) ==
    /\ obj.j = "dict"
    /\ IsLodgingType(OwnType(obj))
    /\ obj.aggregateRating.j = "agg"
    /\ Truthy(PyOr(obj.aggregateRating.reviewCount, obj.aggregateRating.ratingCount))
    /\ PyInt(PyOr(obj.aggregateRating.reviewCount, obj.aggregateRating.ratingCount)).ok

CountOf(obj) ==
    PyInt(PyOr(obj.aggregateRating.reviewCount, obj.aggregateRating.ratingCount)).n

CountedLodgings == SelectSeq(ObjectsOfScripts(Val(html).scripts), LodgingWithCount)

\* C10: over the JSON-LD blocks of a document in order, totalReviews is the
\* reviewCount, else ratingCount, of the first lodging-typed object
\* (top-level, in a list or under a graph wrapper); earlier blocks without a
\* lodging type (other type, no type, empty graph wrapper, malformed JSON)
\* do not hide it, later objects do not overwrite it, and the subtitle does
\* not replace it.
C10_FirstLodgingCountWins ==
    (pc = "parse_ret" /\ CountedLodgings # <<>>)
        => /\ ~parsed.exc
           /\ parsed.stats.totalReviews = Some(CountOf(Head(CountedLodgings)))

\* The one card of the page given to the parser, and the record made of it.
TheCard == SelectedCards[1]
TheRecord == parsed.reviews[1]
CardParsed == pc = "parse_ret" /\ Len(SelectedCards) = 1 /\ Len(parsed.reviews) = 1

\* The first contiguous run of digits of a text that holds a digit.
FirstDigitRun(t) ==
    LET first == CHOOSE i \in 1..Len(t) :
                    IsDigit(t[i]) /\ \A k \in 1..(i - 1) : ~IsDigit(t[k])
        last == CHOOSE j \in first..Len(t) :
                    /\ \A k \in first..j : IsDigit(t[k])
                    /\ (j = Len(t) \/ ~IsDigit(t[j + 1]))
    IN  SubSeq(t, first, last)

HasDigit(t) == \E i \in 1..Len(t) : IsDigit(t[i])

\* C11: booking.nights is the integer value of the first contiguous run of
\* digits of the stay-description text, whatever digits come later, and is
\* unset when the text holds no digit.
C11_NightsIsFirstDigitRun ==
    (CardParsed /\ TheCard.stay # None)
        => TheRecord.booking.nights =
              IF HasDigit(Val(TheCard.stay))
              THEN Some(DigitsToInt(FirstDigitRun(Val(TheCard.stay)), 0))
              ELSE None

IsSet(o) == o # None /\ Val(o) # <<>>

\* The language levels of the card in priority order, then the hint.
LanguageLevels ==
    << TheCard.lang, TheCard.dataLang, TheCard.rootLang, language_hint >>

\* C12: a record's language is the first non-empty value among the card's
\* lang attribute, its data-review-language attribute, the lang attribute
\* of the root html element and the caller's hint, in this order; an empty
\* value at one level does not stop the lower levels from being tried.
C12_FirstNonEmptyLanguage ==
    CardParsed =>
        \A i \in 1..4 :
            (IsSet(LanguageLevels[i]) /\ \A k \in 1..(i - 1) : ~IsSet(LanguageLevels[k]))
                => TheRecord.language = LanguageLevels[i]

\* The host of a network location: without the user information before the
\* last "@" and without the port after the ":" that follows.
AfterUserInfo(netloc) ==
    IF \E i \in 1..Len(netloc) : netloc[i] = "@"
    THEN SubSeq(netloc,
                (CHOOSE i \in 1..Len(netloc) :
                    netloc[i] = "@" /\ \A k \in (i + 1)..Len(netloc) : netloc[k] # "@") + 1,
                Len(netloc))
    ELSE netloc

HostOf(src) ==
    LET hostport == AfterUserInfo(UrlParse(src).netloc)
    IN  IF Find(hostport, ":") = 0 THEN hostport
        ELSE SubSeq(hostport, 1, Find(hostport, ":") - 1)

\* The sources of the card's image elements, in document order.
SourcesOf(card) ==
    [i \in 1..Len(card.imgs) |->
        IF IsSet(ImgSource(card.imgs[i])) THEN Val(ImgSource(card.imgs[i])) ELSE <<>>]

FirstAppearance(card, src) ==
    CHOOSE i \in 1..Len(card.imgs) :
        SourcesOf(card)[i] = src /\ \A k \in 1..(i - 1) : SourcesOf(card)[k] # src

\* C13: in every emitted record, photos holds only image sources that have
\* both a scheme and a host, holds no value twice, and lists the values in
\* the order of their first appearance among the card's image elements.
C13_PhotosAbsoluteUniqueOrdered ==
    CardParsed =>
        /\ \A i \in 1..Len(TheRecord.photos) :
              /\ \E k \in 1..Len(TheCard.imgs) :
                    SourcesOf(TheCard)[k] = TheRecord.photos[i]
              /\ HasScheme(TheRecord.photos[i])
              /\ HostOf(TheRecord.photos[i]) # <<>>
        /\ NoDuplicates(TheRecord.photos)
        /\ \A i, j \in 1..Len(TheRecord.photos) :
              i < j => FirstAppearance(TheCard, TheRecord.photos[i])
                         < FirstAppearance(TheCard, TheRecord.photos[j])

IsPrefix(s, t) == Len(s) <= Len(t) /\ s = SubSeq(t, 1, Len(s))

\* C14: pages are fetched and parsed strictly one at a time: a page is
\* fetched only after the reviews of every earlier page were accumulated,
\* and the list scrape_reviews returns is a prefix of the concatenation, in
\* fetch order, of each page's parse output.
C14_OnePageAtATime ==
    /\ IsPrefix(all_reviews, emitted)
    /\ pc \in {"fetching", "fetched", "yielded"} =>
          /\ page_count = Len(fetch_log) - 1
          /\ all_reviews = emitted
    /\ pc \in {"resume", "head"} => page_count = Len(fetch_log)
    /\ result # None => IsPrefix(Val(result).reviews, emitted)

\* Two pages were fetched and parsed; the result stops inside the second
\* page's output.
C14_Witness ==
    /\ pc = "done"
    /\ Len(fetch_log) = 2
    /\ page_count = 2
    /\ Len(Val(result).reviews) >= 1
    /\ Len(Val(result).reviews) < Len(emitted)

\* The texts of the card's paragraphs that hold text, in document order.
TextParagraphs(card) ==
    LET holds == SelectSeq(card.paragraphs, LAMBDA p : SafeText(Some(p)) # <<>>)
    IN  [i \in 1..Len(holds) |-> SafeText(Some(holds[i]))]

RECURSIVE SpaceJoined(_)
SpaceJoined(ts) ==
    IF Len(ts) = 0 THEN <<>>
    ELSE IF Len(ts) = 1 THEN ts[1]
    ELSE ts[1] \o <<" ">> \o SpaceJoined(SubSeq(ts, 2, Len(ts)))

\* What the paragraph fallback is to give for the card.
FallbackPositive(card) ==
    IF TextParagraphs(card) = <<>> THEN <<>> ELSE TextParagraphs(card)[1]

FallbackNegative(card) ==
    IF Len(TextParagraphs(card)) < 2 THEN <<>>
    ELSE SpaceJoined(SubSeq(TextParagraphs(card), 2, Len(TextParagraphs(card))))

ExplicitPositive(card) ==
    IF card.positive = None THEN <<>> ELSE SafeText(card.positive)

ExplicitNegative(card) ==
    IF card.negative = None THEN <<>> ELSE SafeText(card.negative)

\* C15, as claimed: the paragraph fallback is used only when the explicit
\* positive and negative elements are both absent; it then gives, from the
\* paragraphs with text, nothing, or the only one as positive, or the first
\* as positive and the rest joined by single spaces as negative.
C15_FallbackOnlyWhenBothAbsent ==
    CardParsed =>
        IF TheCard.positive = None /\ TheCard.negative = None
        THEN /\ TheRecord.positiveContent = FallbackPositive(TheCard)
             /\ TheRecord.negativeContent = FallbackNegative(TheCard)
        ELSE /\ TheRecord.positiveContent = ExplicitPositive(TheCard)
             /\ TheRecord.negativeContent = ExplicitNegative(TheCard)

\* C15, amended: the paragraph fallback is used exactly when the explicit
\* positive and negative texts are both empty, the element being absent or
\* holding no text; it then gives, from the paragraphs with text, nothing,
\* or the only one as positive, or the first as positive and the rest
\* joined by single spaces as negative.
C15_FallbackWhenBothTextsEmpty ==
    CardParsed =>
        IF ExplicitPositive(TheCard) = <<>> /\ ExplicitNegative(TheCard) = <<>>
        THEN /\ TheRecord.positiveContent = FallbackPositive(TheCard)
             /\ TheRecord.negativeContent = FallbackNegative(TheCard)
        ELSE /\ TheRecord.positiveContent = ExplicitPositive(TheCard)
             /\ TheRecord.negativeContent = ExplicitNegative(TheCard)

\* A positive element that holds only white space, and two paragraphs
\* with text around one without: the fallback fills both fields.
C15_Witness ==
    /\ CardParsed
    /\ TheCard.positive = Some(Txt_ws)
    /\ TheCard.negative = None
    /\ TheCard.paragraphs = <<Txt_a, Txt_ws, Txt_b>>
    /\ TheRecord.positiveContent = Txt_a
    /\ TheRecord.negativeContent = Txt_b

\* C16: once the accumulated review count has reached max_items,
\* scrape_reviews fetches no further page and appends no further review.
C16_NothingAfterCapReached ==
    [][ (pc \notin {"config", "parse_call"} /\ Len(all_reviews) >= cfg.max_items)
          => (fetch_log' = fetch_log /\ all_reviews' = all_reviews) ]_vars

====
